---------------------------- MODULE Spec2Model ----------------------------
(***************************************************************************)
(* A model of the DHT crawler engine of src/dht.go.                        *)
(*                                                                         *)
(* Strings are Go strings: finite sequences of bytes (0..255).  A bencoded *)
(* dictionary is a function from its keys to tagged values                 *)
(*     <<"s", bytes>>   a string      <<"i", n>>   an integer (int64)      *)
(*     <<"d", dict>>    a dictionary  <<"l">>      a list                  *)
(* so a Go type assertion  v, ok := d[k].(string)  is a test of the tag.   *)
(* A UDP address is [ip |-> <<4 bytes>>, port |-> n].                      *)
(***************************************************************************)
EXTENDS Integers, Sequences, FiniteSets, TLC

(***************************************************************************)
(* Bounds of the model.                                                    *)
(***************************************************************************)
\* datagrams the network delivers in one run of the full engine
MaxMsgs == 3
\* distinct values randBytes returns for a node id, a transaction id, a target
MaxRand == 1
\* datagrams the network delivers in one run of the handler scenario
MaxHandled == 2
\* largest value of the maxFriendsPerSec argument of newDHT
MaxFriends == 1
\* announce_peer datagrams delivered beyond the store's capacity in the
\* store scenario
MaxOverflow == 2
\* longest input handed to decodeNodes in the decoding scenario
MaxDecodeLen == 53
\* datagrams read in the scheduling scenario
MaxLive == 2

(***************************************************************************)
(* Program constants.                                                      *)
(***************************************************************************)
\* neighborID: const closeness = 15
closeness == 15
\* length of a node id / infohash / SHA-1 digest: make([]byte, 20)
idLen == 20
\* decodeNodes: the width of one compact node record
nodeRecLen == 26
\* newDHT: g.maxAnnouncements = maxFriendsPerSec * 10
announcementsPerFriend == 10
\* join: const timesForSure = 3
timesForSure == 3

\* var seed: the bootstrap addresses, as ASCII
seed ==
  << <<114, 111, 117, 116, 101, 114, 46, 98, 105, 116, 116, 111, 114, 114,
       101, 110, 116, 46, 99, 111, 109, 58, 54, 56, 56, 49>>,
     <<100, 104, 116, 46, 116, 114, 97, 110, 115, 109, 105, 115, 115, 105,
       111, 110, 98, 116, 46, 99, 111, 109, 58, 54, 56, 56, 49>>,
     <<114, 111, 117, 116, 101, 114, 46, 117, 116, 111, 114, 114, 101, 110,
       116, 46, 99, 111, 109, 58, 54, 56, 56, 49>> >>

\* protocol words, as ASCII
S_q == <<113>>
S_r == <<114>>
S_e == <<101>>
S_get_peers == <<103, 101, 116, 95, 112, 101, 101, 114, 115>>
S_announce_peer == <<97, 110, 110, 111, 117, 110, 99, 101, 95, 112, 101, 101, 114>>
S_find_node == <<102, 105, 110, 100, 95, 110, 111, 100, 101>>
S_ping == <<112, 105, 110, 103>>

\* a field that is absent, an error that is not set
Nil == <<"nil">>
\* a pointer or an optional value: None is nil, Some(x) points to x
None == <<>>
Some(x) == <<x>>

(***************************************************************************)
(* Byte strings.                                                           *)
(***************************************************************************)
\* n bytes of value b
Bytes(n, b) == [i \in 1..n |-> b]

\* s[lo:hi] of Go: the bytes at offsets lo .. hi-1
Slice(s, lo, hi) == SubSeq(s, lo + 1, hi)

Min(a, b) == IF a <= b THEN a ELSE b

\* ASCII of '.', ':' and '0'
chDot == 46
chColon == 58
chZero == 48
\* ASCII of 'a' less ten: digit d >= 10 of a lowercase hex string is chHexA + d
chHexA == 87

\* strconv.Itoa for n >= 0
RECURSIVE Itoa(_)
Itoa(n) == IF n < 10 THEN <<chZero + n>>
           ELSE Itoa(n \div 10) \o <<chZero + (n % 10)>>

\* net.IP(b).String() for a 4-byte address: dotted decimal
IPString(b) ==
  Itoa(b[1]) \o <<chDot>> \o Itoa(b[2]) \o <<chDot>> \o Itoa(b[3])
             \o <<chDot>> \o Itoa(b[4])

\* binary.BigEndian.Uint16
Uint16BE(b) == b[1] * 256 + b[2]

HexDigit(d) == IF d < 10 THEN chZero + d ELSE chHexA + d

\* hex.EncodeToString: two lowercase digits per byte, high nibble first
RECURSIVE HexEncode(_)
HexEncode(s) ==
  IF s = <<>> THEN <<>>
  ELSE <<HexDigit(Head(s) \div 16), HexDigit(Head(s) % 16)>> \o HexEncode(Tail(s))

\* SHA-1, collision-free: the digest of m is m itself under a tag no byte
\* string carries, so two digests are equal exactly when their inputs are and
\* no digest equals a string that is not a digest.
Sha1Tag == -1
Sha1(m) == <<Sha1Tag>> \o m

(***************************************************************************)
(* Pure functions of dht.go.                                               *)
(***************************************************************************)
\* neighborID panics (slice bounds out of range) on target[:closeness] or
\* local[closeness:] when either is shorter than closeness bytes.
neighborIDPanics(target, local) ==
  Len(target) < closeness \/ Len(local) < closeness

\* neighborID with its arguments exchanged: the local id's head and the
\* target's tail
neighborIDSwapped(target, local) ==
  LET n == Min(idLen - closeness, Len(target) - closeness)
  IN  Slice(local, 0, closeness) \o Slice(target, closeness, closeness + n)
        \o Bytes(idLen - closeness - n, 0)

\* neighborID: 20 zero bytes, then copy(id[:15], target[:15]) and
\* copy(id[15:], local[15:]); copy moves min(len(dst), len(src)) bytes.
neighborID(target, local) ==
  LET n == Min(idLen - closeness, Len(local) - closeness)
  IN  Slice(target, 0, closeness) \o Slice(local, closeness, closeness + n)
        \o Bytes(idLen - closeness - n, 0)

makeQuery(tid, q, a) ==
  [t |-> <<"s", tid>>, y |-> <<"s", S_q>>, q |-> <<"s", q>>, a |-> <<"d", a>>]

makeReply(tid, r) ==
  [t |-> <<"s", tid>>, y |-> <<"s", S_r>>, r |-> <<"d", r>>]

\* one record of decodeNodes at byte offset i
decodeNode(s, i) ==
  [id   |-> Slice(s, i, i + idLen),
   addr |-> IPString(Slice(s, i + idLen, i + idLen + 4)) \o <<chColon>>
              \o Itoa(Uint16BE(Slice(s, i + idLen + 4, i + nodeRecLen)))]

\* decodeNodes without the length check of line 72: whole records only
decodeNodesPartial(s) ==
  [k \in 1..(Len(s) \div nodeRecLen) |-> decodeNode(s, nodeRecLen * (k - 1))]

decodeNodes(s) ==
  IF Len(s) % nodeRecLen # 0 THEN <<>>
  ELSE [k \in 1..(Len(s) \div nodeRecLen) |-> decodeNode(s, nodeRecLen * (k - 1))]


(***************************************************************************)
(* Bencoded dictionaries and Go's type assertions on their values.         *)
(***************************************************************************)
Has(d, k, tag) == k \in DOMAIN d /\ d[k][1] = tag
IsString(d, k) == Has(d, k, "s")
IsInt(d, k) == Has(d, k, "i")
IsDict(d, k) == Has(d, k, "d")
Val(d, k) == d[k][2]

\* bencode.Decode: a datagram either holds a bencoded dictionary,
\* <<"d", dict>>, or does not decode, <<"x">>.
Undecodable == <<"x">>
bencodeDecode(data) ==
  IF data[1] = "d" THEN [err |-> FALSE, dict |-> data[2]] ELSE [err |-> TRUE]

(***************************************************************************)
(* The state.                                                              *)
(*                                                                         *)
(* announcements is the container/list of the dht: its len field and its   *)
(* elements el[0..n], el[0] the list's root (sentinel), every element with *)
(* its next and prev pointers (indices, NilPtr for nil), its list field    *)
(* (TRUE: this list, FALSE: nil) and its Value.  Elements are numbered in  *)
(* the order PushBack allocates them.                                      *)
(***************************************************************************)
VARIABLES
  scenario,              \* which datagrams the network delivers
  budget,                \* datagrams the network still delivers
  maxFriendsPerSec,      \* newDHT's argument
  localID,               \* g.localID
  secret,                \* g.secret
  maxAnnouncements,      \* g.maxAnnouncements
  announcements,         \* g.announcements
  announcementNotifier,  \* g.announcementNotifier: notifications buffered
  friendsLimiter,        \* g.friendsLimiter: tokens in the bucket
  die,                   \* g.die is closed
  errDie,                \* g.errDie
  sent,                  \* g.conn: the datagrams written by the step that wrote last
  replied,               \* addresses a get_peers reply was written to
  listen,                \* the read task, go g.listen()
  join,                  \* the bootstrap task, go g.join()
  makefriends,           \* the discovery consumer, go g.makefriends()
  consumer,              \* the external consumer of the announcements
  drained,               \* elements the consumer has taken, in order
  hist,                  \* of the reply in hand: the limiter's tokens when it
                         \* was read, whether the bucket was refilled since,
                         \* the nodes handed to the channel
  crashed,               \* the process died of a panic
  fin,                   \* input of the pure function under check
  fout                   \* its result

vars == <<scenario, budget, maxFriendsPerSec, localID, secret, maxAnnouncements,
          announcements, announcementNotifier, friendsLimiter, die, errDie,
          sent, replied, listen, join, makefriends, consumer, drained, hist,
          crashed, fin, fout>>

NilPtr == -1
Root == 0

\* g.announcements.Len()
ListLen(l) == l.len

(***************************************************************************)
(* The handlers, as functions of the message: what the read task does with *)
(* it.  [kind |-> "drop"] returns without effect, "panic" is a run-time    *)
(* panic, "send" writes one datagram, "push" goes on to PushBack the       *)
(* announcement, "nodes" goes on to range over the decoded nodes.          *)
(***************************************************************************)
Drop == [kind |-> "drop"]

genToken(from) == Sha1(from.ip \o secret)

\* validateToken accepting every token
validateTokenAny(token, from) == TRUE

\* validateToken accepting the token of any host under the local secret
validateTokenAnyHost(token, from) ==
  /\ Len(token) = 1 + 4 + Len(secret)
  /\ token[1] = Sha1Tag
  /\ SubSeq(token, 6, Len(token)) = secret

validateToken(token, from) == token = genToken(from)

\* peerPort taking the port argument whenever there is one
peerPortExplicit(a, from) ==
  IF IsInt(a, "port") THEN Val(a, "port") ELSE from.port

\* the port of the announcement: lines 284-289
peerPort(a, from) ==
  IF IsInt(a, "implied_port") /\ Val(a, "implied_port") = 0 /\ IsInt(a, "port")
  THEN Val(a, "port")
  ELSE from.port

summarize(dict, from) ==
  IF ~IsDict(dict, "a") THEN None
  ELSE LET a == Val(dict, "a") IN
    IF ~IsString(a, "info_hash") THEN None
    ELSE Some(
         [raw         |-> dict,
          from        |-> from,
          infohash    |-> Val(a, "info_hash"),
          infohashHex |-> HexEncode(Val(a, "info_hash")),
          peer        |-> [ip |-> from.ip, port |-> peerPort(a, from)]])

onGetPeersQuery(dict, from) ==
  LET tid == Val(dict, "t") IN
  IF ~IsDict(dict, "a") THEN Drop
  ELSE LET a == Val(dict, "a") IN
    IF ~IsString(a, "id") THEN Drop
    ELSE IF neighborIDPanics(Val(a, "id"), localID) THEN [kind |-> "panic"]
    ELSE [kind |-> "send",
          to   |-> from,
          data |-> makeReply(tid,
                     [id    |-> <<"s", neighborID(Val(a, "id"), localID)>>,
                      nodes |-> <<"s", <<>> >>,
                      token |-> <<"s", genToken(from)>>])]

\* onAnnouncePeerQuery telling the sender that its token was refused
onAnnouncePeerQueryOracle(dict, from) ==
  IF ListLen(announcements) >= maxAnnouncements THEN Drop
  ELSE IF ~IsDict(dict, "a") THEN Drop
  ELSE LET a == Val(dict, "a") IN
    IF ~IsString(a, "token") \/ ~validateToken(Val(a, "token"), from)
      THEN [kind |-> "send", to |-> from,
            data |-> makeReply(Val(dict, "t"), [id |-> <<"s", localID>>])]
    ELSE LET ac == summarize(dict, from) IN
      IF ac = None THEN Drop ELSE [kind |-> "push", ac |-> ac]

onAnnouncePeerQuery(dict, from) ==
  IF ListLen(announcements) >= maxAnnouncements THEN Drop
  ELSE IF ~IsDict(dict, "a") THEN Drop
  ELSE LET a == Val(dict, "a") IN
    IF ~IsString(a, "token") \/ ~validateToken(Val(a, "token"), from) THEN Drop
    ELSE LET ac == summarize(dict, from) IN
      IF ac = None THEN Drop ELSE [kind |-> "push", ac |-> ac]

onReply(dict, from) ==
  IF ~IsDict(dict, "r") THEN Drop
  ELSE LET r == Val(dict, "r") IN
    IF ~IsString(r, "nodes") THEN Drop
    ELSE [kind |-> "nodes", nodes |-> decodeNodes(Val(r, "nodes"))]

\* onQuery answering every query name the way it answers get_peers
onQueryAnyName(dict, from) ==
  IF ~IsString(dict, "t") THEN Drop
  ELSE IF ~IsString(dict, "q") THEN Drop
  ELSE IF Val(dict, "q") = S_announce_peer THEN onAnnouncePeerQuery(dict, from)
  ELSE onGetPeersQuery(dict, from)

\* g.queryTypes: the handler of a query name, if it has one
onQuery(dict, from) ==
  IF ~IsString(dict, "t") THEN Drop
  ELSE IF ~IsString(dict, "q") THEN Drop
  ELSE IF Val(dict, "q") = S_get_peers THEN onGetPeersQuery(dict, from)
  ELSE IF Val(dict, "q") = S_announce_peer THEN onAnnouncePeerQuery(dict, from)
  ELSE Drop

onMessage(data, from) ==
  LET dec == bencodeDecode(data) IN
  IF dec.err THEN Drop
  ELSE IF ~IsString(dec.dict, "y") THEN Drop
  ELSE IF Val(dec.dict, "y") = S_q THEN onQuery(dec.dict, from)
  ELSE IF Val(dec.dict, "y") \in {S_r, S_e} THEN onReply(dec.dict, from)
  ELSE Drop

(***************************************************************************)
(* The network: the datagrams it may deliver.                              *)
(***************************************************************************)
With(d, k, v) == [x \in DOMAIN d \cup {k} |-> IF x = k THEN v ELSE d[x]]
Without(d, k) == [x \in DOMAIN d \ {k} |-> d[x]]

AddrA == [ip |-> <<10, 0, 0, 1>>, port |-> 6881]
\* the same host as AddrA, another port
AddrB == [ip |-> <<10, 0, 0, 1>>, port |-> 51413]
AddrC == [ip |-> <<10, 0, 0, 2>>, port |-> 6881]
Addrs == {AddrA, AddrB, AddrC}

\* values randBytes may return for g.secret and g.localID
Secrets == {Bytes(idLen, 1)}
LocalIDs == {[i \in 1..idLen |-> 100 + i]}
\* a secret that is not the engine's
ForeignSecret == Bytes(idLen, 2)

\* values randBytes(n) may return elsewhere
RandBytes(n) == {[i \in 1..n |-> 16 * k + i] : k \in 1..MaxRand}

Tids == {<<97, 97>>, <<98>>}
VStr(b) == <<"s", b>>
VInt(n) == <<"i", n>>
VDict(d) == <<"d", d>>

\* a compact node record: id of 20 bytes b, address 10.0.0.b, port 6881
NodeRec(b) == Bytes(idLen, b) \o <<10, 0, 0, b>> \o <<26, 225>>

Query(t, q, a) == [t |-> VStr(t), y |-> VStr(S_q), q |-> VStr(q), a |-> VDict(a)]
GetPeers(t, id) == Query(t, S_get_peers, [id |-> VStr(id), info_hash |-> VStr(Bytes(idLen, 17))])
\* the arguments of a well-formed announce_peer from an address
AnnounceArgs(from, sec) ==
  [id |-> VStr(Bytes(idLen, 170)), info_hash |-> VStr(Bytes(idLen, 17)),
   token |-> VStr(Sha1(from.ip \o sec))]
Announce(a) == Query(<<97, 97>>, S_announce_peer, a)
Reply(y, r) == [t |-> VStr(<<97, 97>>), y |-> VStr(y), r |-> VDict(r)]

\* values of a field that is absent (Nil) or present with some type
Field(d, k, v) == IF v = Nil THEN Without(d, k) ELSE With(d, k, v)

\* dictionaries that are no query and no reply, and queries and replies that
\* lack a field or carry it with the wrong type
Malformed(sec) ==
  { [t |-> VStr(<<97, 97>>)],
    [t |-> VStr(<<97, 97>>), y |-> VInt(1)],
    [t |-> VStr(<<97, 97>>), y |-> VStr(<<120>>)],
    Without(GetPeers(<<97, 97>>, Bytes(idLen, 170)), "t"),
    With(GetPeers(<<97, 97>>, Bytes(idLen, 170)), "t", VInt(7)),
    Without(GetPeers(<<97, 97>>, Bytes(idLen, 170)), "q"),
    With(GetPeers(<<97, 97>>, Bytes(idLen, 170)), "q", VInt(7)),
    Query(<<97, 97>>, S_ping, [id |-> VStr(Bytes(idLen, 170))]),
    Query(<<97, 97>>, S_find_node,
          [id |-> VStr(Bytes(idLen, 170)), target |-> VStr(Bytes(idLen, 1))]),
    Without(GetPeers(<<97, 97>>, Bytes(idLen, 170)), "a"),
    With(GetPeers(<<97, 97>>, Bytes(idLen, 170)), "a", VStr(<<>>)),
    Query(<<97, 97>>, S_get_peers, [info_hash |-> VStr(Bytes(idLen, 17))]),
    Query(<<97, 97>>, S_get_peers, [id |-> VInt(5)]),
    Without(Announce(AnnounceArgs(AddrA, sec)), "a"),
    [t |-> VStr(<<97, 97>>), y |-> VStr(S_r)],
    [t |-> VStr(<<97, 97>>), y |-> VStr(S_r), r |-> VStr(<<>>)],
    Reply(S_r, [id |-> VStr(Bytes(idLen, 170))]),
    Reply(S_r, [id |-> VStr(Bytes(idLen, 170)), nodes |-> VInt(0)]) }

\* lengths of the id of a get_peers query
IdLens == {0, closeness - 1, closeness, idLen, idLen + 1}

\* tokens an announce_peer may carry from an address: none, an integer, the
\* empty string, a wrong string, the token of another host, the token under
\* another secret, the valid token
Tokens(from, sec) ==
  {Nil, VInt(0), VStr(<<>>), VStr(Bytes(idLen, 0))}
    \cup {VStr(Sha1(x.ip \o sec)) : x \in Addrs}
    \cup {VStr(Sha1(from.ip \o s)) : s \in Secrets \cup {ForeignSecret}}

ImpliedPorts == {Nil, VInt(0), VInt(1), VStr(<<48>>)}
Ports == {Nil, VInt(9999), VStr(<<57>>)}
InfoHashes == {Nil, VInt(3), VStr(<<>>), VStr(Bytes(idLen - 1, 17)),
               VStr(Bytes(idLen, 17)), VStr(Bytes(idLen + 1, 17))}

\* node lists of a reply: no record, one, two, and lengths off a record's width
NodeLists ==
  {<<>>, NodeRec(5), NodeRec(5) \o NodeRec(6), Bytes(nodeRecLen - 1, 5),
   Bytes(nodeRecLen + 1, 5)}

Dgram(from, dict) == [from |-> from, data |-> <<"d", dict>>]

\* the handler scenario: every variation of every message
HandlerUniverse(sec) ==
  {[from |-> AddrA, data |-> Undecodable]}
    \cup {Dgram(AddrA, d) : d \in Malformed(sec)}
    \cup {Dgram(f, GetPeers(t, Bytes(n, 170))) : f \in Addrs, t \in Tids, n \in IdLens}
    \cup UNION {{Dgram(f, Announce(Field(AnnounceArgs(f, sec), "token", tk))) :
                   tk \in Tokens(f, sec)} : f \in Addrs}
    \cup {Dgram(AddrB, Announce(Field(Field(AnnounceArgs(AddrB, sec), "implied_port", ip), "port", p))) :
            ip \in ImpliedPorts, p \in Ports}
    \cup {Dgram(AddrC, Announce(Field(AnnounceArgs(AddrC, sec), "info_hash", h))) :
            h \in InfoHashes}
    \cup {Dgram(AddrA, Reply(y, [nodes |-> VStr(n)])) : y \in {S_r, S_e}, n \in NodeLists}

\* the engine scenario: one message of every outcome
EngineUniverse(sec) ==
  { [from |-> AddrA, data |-> Undecodable],
    Dgram(AddrA, GetPeers(<<97, 97>>, Bytes(idLen, 170))),
    Dgram(AddrA, Announce(AnnounceArgs(AddrA, sec))),
    Dgram(AddrB, Announce(With(With(AnnounceArgs(AddrB, sec), "implied_port", VInt(0)),
                               "port", VInt(9999)))),
    Dgram(AddrC, Announce(With(AnnounceArgs(AddrC, sec), "token", VStr(<<>>)))),
    Dgram(AddrA, Reply(S_r, [nodes |-> VStr(NodeRec(5) \o NodeRec(6))])),
    Dgram(AddrA, Reply(S_r, [nodes |-> VStr(Bytes(nodeRecLen - 1, 5))])) }

\* the store scenario: well-formed announce_peer queries only
StoreUniverse(sec) == {Dgram(AddrA, Announce(AnnounceArgs(AddrA, sec)))}

\* ids of 20 bytes, every byte of an id different from its neighbours
NeighborIDs == {[i \in 1..idLen |-> (m * i + c) % 256] : m \in {1, 7, 13}, c \in {0, 50}}

\* the neighbour scenario: get_peers queries from requesters of every id, and
\* replies that name one node of every id
NeighborUniverse(sec) ==
  {Dgram(AddrA, GetPeers(<<97, 97>>, t)) : t \in NeighborIDs}
    \cup {Dgram(AddrA, Reply(S_r, [nodes |-> VStr(t \o <<10, 0, 0, 5>> \o <<26, 225>>)])) :
            t \in NeighborIDs}

\* the scheduling scenario: a reply that names two nodes, and a get_peers
\* query
LiveUniverse(sec) ==
  { Dgram(AddrA, Reply(S_r, [nodes |-> VStr(NodeRec(5) \o NodeRec(6))])),
    Dgram(AddrA, GetPeers(<<97, 97>>, Bytes(idLen, 170))) }

\* the datagrams of each scenario, for each secret the engine may have drawn
Universes ==
  [sc \in {"engine", "handler", "store", "neighbor", "live"} |->
     [sec \in Secrets |->
        CASE sc = "engine"   -> EngineUniverse(sec)
          [] sc = "handler"  -> HandlerUniverse(sec)
          [] sc = "store"    -> StoreUniverse(sec)
          [] sc = "neighbor" -> NeighborUniverse(sec)
          [] sc = "live"     -> LiveUniverse(sec)]]

Universe == Universes[scenario][secret]

(***************************************************************************)
(* container/list, as far as the engine and its consumer use it.           *)
(***************************************************************************)
\* list.New(): an empty ring, the root its own neighbour
NewList ==
  [len |-> 0,
   el  |-> [i \in {Root} |-> [next |-> Root, prev |-> Root, list |-> FALSE,
                               value |-> None]]]

\* &Element{Value: v} with e.prev = at: the next element of the heap
NewElement(l, v, at) ==
  LET e == Cardinality(DOMAIN l.el) IN
  [l EXCEPT !.el = [i \in DOMAIN l.el \cup {e} |->
                      IF i = e THEN [next |-> NilPtr, prev |-> at,
                                     list |-> FALSE, value |-> Some(v)]
                      ELSE l.el[i]]]

\* the elements a traversal from Front() by Next() visits, at most n of them
RECURSIVE Walk(_, _, _)
Walk(l, i, n) ==
  IF i = Root \/ i = NilPtr \/ n = 0 THEN <<>>
  ELSE <<i>> \o Walk(l, l.el[i].next, n - 1)

Chain(l) == Walk(l, l.el[Root].next, Cardinality(DOMAIN l.el))

(***************************************************************************)
(* newDHT: the state it returns, its three tasks started.                  *)
(***************************************************************************)
ListenIdle == [pc |-> "read", dg |-> None, ac |-> None, nodes |-> <<>>, i |-> 0,
               e |-> NilPtr, t |-> 0]

newDHT(n, id, sec) ==
  /\ maxFriendsPerSec = n
  /\ localID = id
  /\ secret = sec
  /\ maxAnnouncements = n * announcementsPerFriend
  /\ announcements = NewList
  /\ announcementNotifier = 0
  /\ friendsLimiter = n
  /\ die = FALSE
  /\ errDie = Nil
  /\ sent = <<>>
  /\ replied = {}
  /\ listen = ListenIdle
  /\ join = [pc |-> "send", n |-> 0]
  /\ makefriends = [pc |-> "recv", node |-> None]
  /\ consumer = [pc |-> "wait", e |-> NilPtr, t |-> 0]
  /\ drained = <<>>
  /\ hist = [b |-> 0, refilled |-> FALSE, enq |-> <<>>]
  /\ crashed = FALSE

Init ==
  /\ scenario = "engine"
  /\ budget = MaxMsgs
  /\ \E n \in 1..MaxFriends, id \in LocalIDs, sec \in Secrets : newDHT(n, id, sec)
  /\ fin = None
  /\ fout = None

(***************************************************************************)
(* The read task: listen, and the handlers it runs inline.                 *)
(***************************************************************************)
\* g.send: conn.WriteToUDP, its error ignored
send(data, to) == sent' = <<[to |-> to, data |-> data]>>

\* the loop of onReply moves to its next node, or the handler returns
Advance(l) ==
  IF l.i >= Len(l.nodes) THEN [l EXCEPT !.pc = "read", !.nodes = <<>>, !.i = 0]
  ELSE [l EXCEPT !.pc = "range", !.i = l.i + 1]

\* listen reads datagram dg and onMessage dispatches it
Recv(dg) ==
  LET eff == onMessage(dg.data, dg.from) IN
  /\ ~crashed
  /\ listen.pc = "read"
  /\ budget > 0
  /\ budget' = budget - 1
  /\ crashed' = (eff.kind = "panic")
  /\ IF eff.kind = "send"
       THEN send(eff.data, eff.to) /\ replied' = replied \cup {eff.to}
       ELSE UNCHANGED <<sent, replied>>
  /\ listen' =
       CASE eff.kind = "push" ->
              [listen EXCEPT !.dg = Some(dg), !.pc = "PushBack", !.ac = eff.ac]
         [] eff.kind = "nodes" /\ eff.nodes # <<>> ->
              [listen EXCEPT !.dg = Some(dg), !.pc = "range", !.nodes = eff.nodes, !.i = 1]
         [] OTHER -> [listen EXCEPT !.dg = Some(dg)]
  /\ hist' = [b |-> friendsLimiter, refilled |-> FALSE, enq |-> <<>>]
  /\ UNCHANGED <<scenario, maxFriendsPerSec, localID, secret, maxAnnouncements,
                 announcements, announcementNotifier, friendsLimiter, die, errDie,
                 join, makefriends, consumer, drained, fin, fout>>

ListenRecv == \E dg \in Universe : Recv(dg)

\* g.conn.ReadFromUDP fails: the error is recorded
ListenError ==
  /\ ~crashed
  /\ listen.pc = "read"
  /\ errDie' = <<"read error">>
  /\ listen' = [listen EXCEPT !.pc = "closing"]
  /\ UNCHANGED <<scenario, budget, maxFriendsPerSec, localID, secret,
                 maxAnnouncements, announcements, announcementNotifier,
                 friendsLimiter, die, sent, replied, join, makefriends, consumer,
                 drained, hist, crashed, fin, fout>>

\* close(g.die); break
ListenClose ==
  /\ ~crashed
  /\ listen.pc = "closing"
  /\ die' = TRUE
  /\ listen' = [listen EXCEPT !.pc = "stopped"]
  /\ UNCHANGED <<scenario, budget, maxFriendsPerSec, localID, secret,
                 maxAnnouncements, announcements, announcementNotifier,
                 friendsLimiter, errDie, sent, replied, join, makefriends,
                 consumer, drained, hist, crashed, fin, fout>>

\* g.friendsLimiter.Allow() for the node in hand: a token is taken and the
\* node goes to the channel, or none is left and the loop continues
\* the range loop of onReply admitting every node, whatever the limiter holds
ReplyAllowAll ==
  /\ ~crashed
  /\ listen.pc = "range"
  /\ friendsLimiter' = IF friendsLimiter > 0 THEN friendsLimiter - 1 ELSE 0
  /\ listen' = [listen EXCEPT !.pc = "chNode"]
  /\ UNCHANGED <<scenario, budget, maxFriendsPerSec, localID, secret,
                 maxAnnouncements, announcements, announcementNotifier, die,
                 errDie, sent, replied, join, makefriends, consumer, drained,
                 hist, crashed, fin, fout>>

ReplyAllow ==
  /\ ~crashed
  /\ listen.pc = "range"
  /\ IF friendsLimiter > 0
       THEN /\ friendsLimiter' = friendsLimiter - 1
            /\ listen' = [listen EXCEPT !.pc = "chNode"]
       ELSE /\ friendsLimiter' = friendsLimiter
            /\ listen' = Advance(listen)
  /\ UNCHANGED <<scenario, budget, maxFriendsPerSec, localID, secret,
                 maxAnnouncements, announcements, announcementNotifier, die,
                 errDie, sent, replied, join, makefriends, consumer, drained,
                 hist, crashed, fin, fout>>

\* g.chNode <- node on a channel with a buffer: the send completes at once,
\* the node waits in the buffer
HandoffListenBuffered ==
  /\ ~crashed
  /\ listen.pc = "chNode"
  /\ listen' = Advance(listen)
  /\ hist' = [hist EXCEPT !.enq = Append(hist.enq, listen.nodes[listen.i])]
  /\ UNCHANGED <<scenario, budget, maxFriendsPerSec, localID, secret,
                 maxAnnouncements, announcements, announcementNotifier,
                 friendsLimiter, die, errDie, sent, replied, join, makefriends,
                 consumer, drained, crashed, fin, fout>>

\* g.chNode <- node, from onReply: the channel is unbuffered, the send
\* completes when makefriends receives
HandoffListen ==
  /\ ~crashed
  /\ listen.pc = "chNode"
  /\ makefriends.pc = "recv"
  /\ makefriends' = [pc |-> "findNode", node |-> Some(listen.nodes[listen.i])]
  /\ listen' = Advance(listen)
  /\ hist' = [hist EXCEPT !.enq = Append(hist.enq, listen.nodes[listen.i])]
  /\ UNCHANGED <<scenario, budget, maxFriendsPerSec, localID, secret,
                 maxAnnouncements, announcements, announcementNotifier,
                 friendsLimiter, die, errDie, sent, replied, join, consumer,
                 drained, crashed, fin, fout>>

\* time passes: the bucket of the limiter regains a token, up to its burst
Tick ==
  /\ ~crashed
  /\ friendsLimiter < maxFriendsPerSec
  /\ friendsLimiter' = friendsLimiter + 1
  /\ hist' = [hist EXCEPT !.refilled = listen.pc \in {"range", "chNode"} \/ hist.refilled]
  /\ UNCHANGED <<scenario, budget, maxFriendsPerSec, localID, secret,
                 maxAnnouncements, announcements, announcementNotifier, die,
                 errDie, sent, replied, listen, join, makefriends, consumer,
                 drained, crashed, fin, fout>>

\* what every step of g.announcements.PushBack and of the notification leaves
\* alone
PushFrame ==
  UNCHANGED <<scenario, budget, maxFriendsPerSec, localID, secret,
              maxAnnouncements, friendsLimiter, die, errDie, sent, replied, join,
              makefriends, consumer, drained, hist, fin, fout>>

\* g.announcements.PushBack(ac): insertValue(v, l.root.prev) reads the last
\* element, at, and insert(e, at) starts with e.prev = at on the new element
PushBackAt ==
  /\ ~crashed
  /\ listen.pc = "PushBack"
  /\ announcements' = NewElement(announcements, listen.ac[1], announcements.el[Root].prev)
  /\ listen' = [listen EXCEPT !.pc = "e.next", !.e = Cardinality(DOMAIN announcements.el)]
  /\ UNCHANGED <<announcementNotifier, crashed>>
  /\ PushFrame

\* insert: e.next = at.next
InsertNext ==
  /\ ~crashed
  /\ listen.pc = "e.next"
  /\ LET e == listen.e
         at == announcements.el[e].prev
     IN announcements' = [announcements EXCEPT !.el[e].next = announcements.el[at].next]
  /\ listen' = [listen EXCEPT !.pc = "e.prev.next"]
  /\ UNCHANGED <<announcementNotifier, crashed>>
  /\ PushFrame

\* insert: e.prev.next = e
InsertLinkPrev ==
  /\ ~crashed
  /\ listen.pc = "e.prev.next"
  /\ LET e == listen.e
     IN announcements' = [announcements EXCEPT !.el[announcements.el[e].prev].next = e]
  /\ listen' = [listen EXCEPT !.pc = "e.next.prev"]
  /\ UNCHANGED <<announcementNotifier, crashed>>
  /\ PushFrame

\* insert: e.next.prev = e, a nil dereference when e.next is nil
InsertLinkNext ==
  /\ ~crashed
  /\ listen.pc = "e.next.prev"
  /\ LET e == listen.e
         n == announcements.el[e].next
     IN IF n = NilPtr
          THEN crashed' = TRUE /\ UNCHANGED <<announcements, listen>>
          ELSE /\ announcements' = [announcements EXCEPT !.el[n].prev = e]
               /\ listen' = [listen EXCEPT !.pc = "e.list"]
               /\ UNCHANGED crashed
  /\ UNCHANGED announcementNotifier
  /\ PushFrame

\* insert: e.list = l
InsertList ==
  /\ ~crashed
  /\ listen.pc = "e.list"
  /\ announcements' = [announcements EXCEPT !.el[listen.e].list = TRUE]
  /\ listen' = [listen EXCEPT !.pc = "len.load"]
  /\ UNCHANGED <<announcementNotifier, crashed>>
  /\ PushFrame

\* insert: l.len++, its load
LenLoad ==
  /\ ~crashed
  /\ listen.pc = "len.load"
  /\ listen' = [listen EXCEPT !.pc = "len.store", !.t = announcements.len]
  /\ UNCHANGED <<announcements, announcementNotifier, crashed>>
  /\ PushFrame

\* insert: l.len++, its store
LenStore ==
  /\ ~crashed
  /\ listen.pc = "len.store"
  /\ announcements' = [announcements EXCEPT !.len = listen.t + 1]
  /\ listen' = [listen EXCEPT !.pc = "notify", !.t = 0]
  /\ UNCHANGED <<announcementNotifier, crashed>>
  /\ PushFrame

\* select { case g.announcementNotifier <- struct{}{}: default: } on a channel
\* of capacity 1
notifierCap == 1
\* the notification as a send on a channel without a bound
NotifyUnbounded ==
  /\ ~crashed
  /\ listen.pc = "notify"
  /\ announcementNotifier' = announcementNotifier + 1
  /\ listen' = [listen EXCEPT !.pc = "read", !.e = NilPtr, !.ac = None]
  /\ UNCHANGED <<announcements, crashed>>
  /\ PushFrame

Notify ==
  /\ ~crashed
  /\ listen.pc = "notify"
  /\ announcementNotifier' =
       IF announcementNotifier < notifierCap THEN announcementNotifier + 1
       ELSE announcementNotifier
  /\ listen' = [listen EXCEPT !.pc = "read", !.e = NilPtr, !.ac = None]
  /\ UNCHANGED <<announcements, crashed>>
  /\ PushFrame

(***************************************************************************)
(* The bootstrap task and the discovery consumer.                          *)
(***************************************************************************)
\* join handing over the first bootstrap address every time
HandoffJoinFirstSeed ==
  /\ ~crashed
  /\ join.pc = "send"
  /\ makefriends.pc = "recv"
  /\ \E id \in RandBytes(idLen) :
       makefriends' = [pc |-> "findNode",
                       node |-> Some([addr |-> seed[1],
                                      id   |-> id])]
  /\ join' = [pc |-> IF join.n + 1 = timesForSure * Len(seed) THEN "done" ELSE "send",
              n  |-> join.n + 1]
  /\ UNCHANGED <<scenario, budget, maxFriendsPerSec, localID, secret,
                 maxAnnouncements, announcements, announcementNotifier,
                 friendsLimiter, die, errDie, sent, replied, listen, consumer,
                 drained, hist, crashed, fin, fout>>

\* g.chNode <- &node{addr, id: randBytes(20)}, from join: round by round,
\* every bootstrap address in order
HandoffJoin ==
  /\ ~crashed
  /\ join.pc = "send"
  /\ makefriends.pc = "recv"
  /\ \E id \in RandBytes(idLen) :
       makefriends' = [pc |-> "findNode",
                       node |-> Some([addr |-> seed[(join.n % Len(seed)) + 1],
                                      id   |-> id])]
  /\ join' = [pc |-> IF join.n + 1 = timesForSure * Len(seed) THEN "done" ELSE "send",
              n  |-> join.n + 1]
  /\ UNCHANGED <<scenario, budget, maxFriendsPerSec, localID, secret,
                 maxAnnouncements, announcements, announcementNotifier,
                 friendsLimiter, die, errDie, sent, replied, listen, consumer,
                 drained, hist, crashed, fin, fout>>

IsDigit(c) == c \in chZero..(chZero + 9)

RECURSIVE LastIndex(_, _)
LastIndex(s, c) ==
  IF s = <<>> THEN 0
  ELSE IF s[Len(s)] = c THEN Len(s)
  ELSE LastIndex(SubSeq(s, 1, Len(s) - 1), c)

RECURSIVE Split(_, _)
Split(s, c) ==
  LET k == LastIndex(s, c) IN
  IF k = 0 THEN <<s>>
  ELSE Append(Split(SubSeq(s, 1, k - 1), c), SubSeq(s, k + 1, Len(s)))

RECURSIVE DecValue(_)
DecValue(s) ==
  IF s = <<>> THEN 0
  ELSE DecValue(SubSeq(s, 1, Len(s) - 1)) * 10 + (s[Len(s)] - chZero)

\* a decimal number of at most 5 digits without a leading zero, or -1
ParseDec(s) ==
  IF /\ Len(s) \in 1..5
     /\ \A i \in 1..Len(s) : IsDigit(s[i])
     /\ (Len(s) = 1 \/ s[1] # chZero)
  THEN DecValue(s) ELSE -1

\* a dotted-decimal IPv4 literal, if h is one
ParseIPv4(h) ==
  LET parts == Split(h, chDot) IN
  IF Len(parts) = 4 /\ \A i \in 1..4 : ParseDec(parts[i]) \in 0..255
  THEN Some([i \in 1..4 |-> ParseDec(parts[i])]) ELSE None

\* the address a name server may give for a host name
DnsAnswer == <<67, 215, 246, 10>>

\* net.ResolveUDPAddr("udp4", to): the addresses it may return, None its error.
\* An IPv4 literal resolves to itself; a host name is looked up, which fails
\* or answers.
ResolveUDPAddr(to) ==
  LET k == LastIndex(to, chColon)
      host == SubSeq(to, 1, k - 1)
      port == ParseDec(SubSeq(to, k + 1, Len(to)))
  IN  IF k = 0 \/ port \notin 0..65535 THEN {None}
      ELSE IF ParseIPv4(host) # None
        THEN {Some([ip |-> ParseIPv4(host)[1], port |-> port])}
      ELSE {None, Some([ip |-> DnsAnswer, port |-> port])}

\* the addresses of the nodes a datagram names
NodeAddrs(dg) ==
  IF dg.data[1] = "d" /\ IsDict(dg.data[2], "r")
       /\ IsString(Val(dg.data[2], "r"), "nodes")
  THEN LET nodes == decodeNodes(Val(Val(dg.data[2], "r"), "nodes"))
       IN  {nodes[k].addr : k \in 1..Len(nodes)}
  ELSE {}

\* every address findNode is called with: the bootstrap addresses and those
\* of the nodes the replies name
KnownAddrs ==
  {seed[k] : k \in 1..Len(seed)}
    \cup UNION {UNION {NodeAddrs(dg) : dg \in Universes[sc][sec]} :
                 sc \in DOMAIN Universes, sec \in Secrets}

\* net.ResolveUDPAddr on each of them
Resolved == [to \in KnownAddrs |-> ResolveUDPAddr(to)]

\* makefriends calling findNode again and again on the node it received
FindNodeKeepsNode ==
  /\ ~crashed
  /\ makefriends.pc = "findNode"
  /\ LET node == makefriends.node[1] IN
     IF neighborIDPanics(node.id, localID)
       THEN crashed' = TRUE /\ UNCHANGED <<sent, makefriends>>
       ELSE /\ \E tid \in RandBytes(2), target \in RandBytes(idLen),
                  addr \in Resolved[node.addr] :
                 LET d == makeQuery(tid, S_find_node,
                            [id     |-> VStr(neighborID(node.id, localID)),
                             target |-> VStr(target)])
                 IN IF addr = None THEN UNCHANGED sent ELSE send(d, addr[1])
            /\ makefriends' = makefriends
            /\ UNCHANGED crashed
  /\ UNCHANGED <<scenario, budget, maxFriendsPerSec, localID, secret,
                 maxAnnouncements, announcements, announcementNotifier,
                 friendsLimiter, die, errDie, replied, listen, join, consumer,
                 drained, hist, fin, fout>>

\* makefriends: g.findNode(node.addr, []byte(node.id)) on the node received
FindNode ==
  /\ ~crashed
  /\ makefriends.pc = "findNode"
  /\ LET node == makefriends.node[1] IN
     IF neighborIDPanics(node.id, localID)
       THEN crashed' = TRUE /\ UNCHANGED <<sent, makefriends>>
       ELSE /\ \E tid \in RandBytes(2), target \in RandBytes(idLen),
                  addr \in Resolved[node.addr] :
                 LET d == makeQuery(tid, S_find_node,
                            [id     |-> VStr(neighborID(node.id, localID)),
                             target |-> VStr(target)])
                 IN IF addr = None THEN UNCHANGED sent ELSE send(d, addr[1])
            /\ makefriends' = [pc |-> "recv", node |-> None]
            /\ UNCHANGED crashed
  /\ UNCHANGED <<scenario, budget, maxFriendsPerSec, localID, secret,
                 maxAnnouncements, announcements, announcementNotifier,
                 friendsLimiter, die, errDie, replied, listen, join, consumer,
                 drained, hist, fin, fout>>

(***************************************************************************)
(* The external consumer of the announcements.  It waits for a wake-up and *)
(* then takes every queued announcement: while Front() gives an element,   *)
(* Remove it.  The engine gives it the bare list and no lock, so its steps *)
(* on the list interleave with those of PushBack.                          *)
(***************************************************************************)
ConsumerFrame ==
  UNCHANGED <<scenario, budget, maxFriendsPerSec, localID, secret,
              maxAnnouncements, friendsLimiter, die, errDie, sent, replied, listen,
              join, makefriends, hist, fin, fout>>

\* <-g.announcementNotifier
ConsumerWait ==
  /\ ~crashed
  /\ consumer.pc = "wait"
  /\ announcementNotifier > 0
  /\ announcementNotifier' = announcementNotifier - 1
  /\ consumer' = [consumer EXCEPT !.pc = "front"]
  /\ UNCHANGED <<announcements, drained, crashed>>
  /\ ConsumerFrame

\* Front(): if l.len == 0 { return nil }
ConsumerFront ==
  /\ ~crashed
  /\ consumer.pc = "front"
  /\ consumer' = [consumer EXCEPT !.pc = IF announcements.len = 0 THEN "wait" ELSE "first"]
  /\ UNCHANGED <<announcements, announcementNotifier, drained, crashed>>
  /\ ConsumerFrame

\* Front(): return l.root.next
ConsumerFirst ==
  /\ ~crashed
  /\ consumer.pc = "first"
  /\ consumer' = [consumer EXCEPT !.pc = "remove", !.e = announcements.el[Root].next]
  /\ UNCHANGED <<announcements, announcementNotifier, drained, crashed>>
  /\ ConsumerFrame

\* Remove(e): if e.list == l; an element of no list is left alone
ConsumerRemove ==
  /\ ~crashed
  /\ consumer.pc = "remove"
  /\ consumer' = IF announcements.el[consumer.e].list
                   THEN [consumer EXCEPT !.pc = "e.prev.next"]
                   ELSE [consumer EXCEPT !.pc = "front", !.e = NilPtr]
  /\ UNCHANGED <<announcements, announcementNotifier, drained, crashed>>
  /\ ConsumerFrame

\* remove: e.prev.next = e.next
RemoveLinkPrev ==
  /\ ~crashed
  /\ consumer.pc = "e.prev.next"
  /\ LET e == announcements.el[consumer.e] IN
     IF e.prev = NilPtr
       THEN crashed' = TRUE /\ UNCHANGED <<announcements, consumer>>
       ELSE /\ announcements' = [announcements EXCEPT !.el[e.prev].next = e.next]
            /\ consumer' = [consumer EXCEPT !.pc = "e.next.prev"]
            /\ UNCHANGED crashed
  /\ UNCHANGED <<announcementNotifier, drained>>
  /\ ConsumerFrame

\* remove: e.next.prev = e.prev
RemoveLinkNext ==
  /\ ~crashed
  /\ consumer.pc = "e.next.prev"
  /\ LET e == announcements.el[consumer.e] IN
     IF e.next = NilPtr
       THEN crashed' = TRUE /\ UNCHANGED <<announcements, consumer>>
       ELSE /\ announcements' = [announcements EXCEPT !.el[e.next].prev = e.prev]
            /\ consumer' = [consumer EXCEPT !.pc = "clear"]
            /\ UNCHANGED crashed
  /\ UNCHANGED <<announcementNotifier, drained>>
  /\ ConsumerFrame

\* remove: e.next = nil; e.prev = nil; e.list = nil
RemoveClear ==
  /\ ~crashed
  /\ consumer.pc = "clear"
  /\ announcements' = [announcements EXCEPT
                         !.el[consumer.e].next = NilPtr,
                         !.el[consumer.e].prev = NilPtr,
                         !.el[consumer.e].list = FALSE]
  /\ consumer' = [consumer EXCEPT !.pc = "len.load"]
  /\ UNCHANGED <<announcementNotifier, drained, crashed>>
  /\ ConsumerFrame

\* remove: l.len--, its load
RemoveLenLoad ==
  /\ ~crashed
  /\ consumer.pc = "len.load"
  /\ consumer' = [consumer EXCEPT !.pc = "len.store", !.t = announcements.len]
  /\ UNCHANGED <<announcements, announcementNotifier, drained, crashed>>
  /\ ConsumerFrame

\* remove: l.len--, its store; the consumer has the element's announcement
RemoveLenStore ==
  /\ ~crashed
  /\ consumer.pc = "len.store"
  /\ announcements' = [announcements EXCEPT !.len = consumer.t - 1]
  /\ drained' = Append(drained, consumer.e)
  /\ consumer' = [pc |-> "front", e |-> NilPtr, t |-> 0]
  /\ UNCHANGED <<announcementNotifier, crashed>>
  /\ ConsumerFrame

(***************************************************************************)
(* Specifications.                                                         *)
(***************************************************************************)
PushBack ==
  \/ PushBackAt \/ InsertNext \/ InsertLinkPrev \/ InsertLinkNext
  \/ InsertList \/ LenStore \/ LenLoad

Drain ==
  \/ ConsumerWait \/ ConsumerFront \/ ConsumerFirst \/ ConsumerRemove
  \/ RemoveLinkPrev \/ RemoveLinkNext \/ RemoveClear \/ RemoveLenLoad
  \/ RemoveLenStore

\* the engine: its three tasks, and time
Next ==
  \/ ListenRecv \/ ListenError \/ ListenClose
  \/ ReplyAllow \/ HandoffListen \/ Tick
  \/ PushBack \/ Notify
  \/ HandoffJoin \/ FindNode

Spec == Init /\ [][Next]_vars

\* the store: the read task under a flow of well-formed announce_peer
\* queries, and the consumer
InitStore ==
  /\ scenario = "store"
  /\ \E n \in 1..MaxFriends, id \in LocalIDs, sec \in Secrets : newDHT(n, id, sec)
  /\ budget = maxAnnouncements + MaxOverflow
  /\ fin = None
  /\ fout = None

NextStore == ListenRecv \/ PushBack \/ Notify \/ Drain

SpecStore == InitStore /\ [][NextStore]_vars

\* the handlers: the read task and the discovery consumer under every
\* variation of every message
InitHandler ==
  /\ scenario = "handler"
  /\ budget = MaxHandled
  /\ \E n \in 1..MaxFriends, id \in LocalIDs, sec \in Secrets : newDHT(n, id, sec)
  /\ fin = None
  /\ fout = None

NextHandler ==
  \/ ListenRecv \/ ReplyAllow \/ HandoffListen \/ FindNode \/ PushBack \/ Notify

SpecHandler == InitHandler /\ [][NextHandler]_vars

(***************************************************************************)
(* The claims.                                                             *)
(***************************************************************************)
\* the announcements the store holds: those of the elements linked from its
\* front
Stored(l) == [k \in 1..Len(Chain(l)) |-> l.el[Chain(l)[k]].value[1]]

\* C1: in every reachable state the announcement store holds at most
\* capacity = 10 * maxFriendsPerSec announcements, whatever the interleaving
\* of announce_peer handling and the consumer's drains.
C1_StoreWithinCapacity ==
  Len(Chain(announcements)) <= announcementsPerFriend * maxFriendsPerSec


\* C5: no wake-up is lost.  With the read task between two datagrams, there
\* is no reachable state in which the store is non-empty, the consumer is
\* waiting and no notification is pending.
C5_NoLostWakeup ==
  ~(/\ ~crashed
    /\ listen.pc = "read"
    /\ Chain(announcements) # <<>>
    /\ consumer.pc = "wait"
    /\ announcementNotifier = 0)

\* the elements the consumer has taken or is taking off the list
Taken == {drained[k] : k \in 1..Len(drained)} \cup {consumer.e}

\* C4: the wake-up signal holds at most one pending notification in every
\* reachable state; the notification of a push never blocks the read task;
\* it comes after the PushBack of the announcement, which is then an element
\* of the list unless the consumer took it; and a push made while a
\* notification is pending leaves exactly that one pending and the list as
\* it is.
C4_NotifierCoalesces ==
  /\ [](announcementNotifier \in 0..1)
  /\ []((listen.pc = "notify" /\ ~crashed) =>
          /\ ENABLED Notify
          /\ announcements.el[listen.e].list \/ listen.e \in Taken
          /\ announcements.el[listen.e].value = listen.ac)
  /\ [][(listen.pc = "notify" /\ listen'.pc # "notify") =>
          /\ listen'.pc = "read"
          /\ announcementNotifier' = 1
          /\ announcements' = announcements]_vars

\* C4, its case: two announcements were pushed and none taken, so that the
\* second push found the notification of the first pending.
C4_Witness ==
  /\ listen.pc = "read"
  /\ announcementNotifier = 1
  /\ Len(Chain(announcements)) = 2
  /\ announcements.len = 2
  /\ consumer.pc = "wait"
  /\ drained = <<>>


\* a datagram that holds a query of the given name
IsQueryNamed(dg, q) ==
  /\ dg.data[1] = "d"
  /\ LET d == dg.data[2] IN
       /\ IsString(d, "y") /\ Val(d, "y") = S_q
       /\ IsString(d, "t")
       /\ IsString(d, "q") /\ Val(d, "q") = q

\* the arguments of a query whose "a" is a dictionary
Args(dg) == Val(dg.data[2], "a")

\* the read task has just read a datagram: the step of listen that did
JustRead == budget' = budget - 1 /\ listen'.dg # None

\* an announce_peer query whose token is absent, not a string, or not the
\* token of its source address
BadTokenAnnounce(dg) ==
  /\ IsQueryNamed(dg, S_announce_peer)
  /\ IsDict(dg.data[2], "a")
  /\ \/ "token" \notin DOMAIN Args(dg)
     \/ Args(dg)["token"][1] # "s"
     \/ Args(dg)["token"][2] # Sha1(dg.from.ip \o secret)

\* C2: an announce_peer query whose token is absent, not a string, or not
\* equal to genToken(source address) never produces a stored announcement:
\* handling it leaves the store's contents and length and the wake-up signal
\* unchanged, and the read task is back at its read with no push to come.
C2_BadTokenStoresNothing ==
  [][(JustRead /\ BadTokenAnnounce(listen'.dg[1])) =>
       /\ announcements' = announcements
       /\ announcementNotifier' = announcementNotifier
       /\ listen'.pc = "read"
       /\ ~crashed']_vars

\* C2, its case: a bad-token announce_peer was handled with an announcement
\* already in the store.
C2_Witness ==
  /\ listen.dg # None
  /\ BadTokenAnnounce(listen.dg[1])
  /\ listen.pc = "read"
  /\ Len(Chain(announcements)) = 1
  /\ announcementNotifier = 1

\* C3: whatever an inbound datagram holds, handling it never crashes the
\* process.
C3_NeverCrashes == ~crashed

\* C6: each stored announcement is preceded by a get_peers reply sent to
\* that announcement's source address.
C6_RepliedBeforeStored ==
  \A i \in DOMAIN announcements.el \ {Root} :
    announcements.el[i].value[1].from \in replied

\* C6, amended: an announcement is stored only for a query that presented
\* the token genToken derives from its source IP and the engine's secret; no
\* get_peers reply to that address need have been sent.
C6_TokenPresented ==
  \A i \in DOMAIN announcements.el \ {Root} :
    LET ac == announcements.el[i].value[1]
        a  == Val(ac.raw, "a")
    IN  /\ IsString(a, "token")
        /\ Val(a, "token") = Sha1(ac.from.ip \o secret)

\* C6, its case: an announcement is stored from an address no reply was
\* ever sent to.
C6_Witness ==
  \E i \in DOMAIN announcements.el \ {Root} :
    /\ announcements.el[i].list
    /\ announcements.el[i].value[1].from \notin replied

\* a well-formed get_peers query: string t, dictionary a with string id
WellFormedGetPeers(dg) ==
  /\ IsQueryNamed(dg, S_get_peers)
  /\ IsDict(dg.data[2], "a")
  /\ IsString(Args(dg), "id")

\* C8: every well-formed get_peers query is answered with exactly one reply,
\* sent to the requester's address, that echoes t, has nodes = "", token =
\* genToken(requester address) and id = the first 15 bytes of the requester's
\* id followed by the last 5 of the local id; handling it changes neither the
\* announcement store nor the discovery channel.
C8_GetPeersAnswered ==
  [][(JustRead /\ WellFormedGetPeers(listen'.dg[1])) =>
       LET dg == listen'.dg[1]
           id == Val(Args(dg), "id")
       IN /\ Len(sent') = 1
          /\ sent'[1].to = dg.from
          /\ sent'[1].data =
               [t |-> dg.data[2]["t"], y |-> VStr(S_r),
                r |-> VDict([id    |-> VStr(SubSeq(id, 1, 15) \o SubSeq(localID, 16, 20)),
                             nodes |-> VStr(<<>>),
                             token |-> VStr(Sha1(dg.from.ip \o secret))])]
          /\ announcements' = announcements
          /\ announcementNotifier' = announcementNotifier
          /\ makefriends' = makefriends
          /\ listen'.pc = "read"]_vars

\* the explicit port of an announce_peer, if it is to be used: implied_port
\* is present with the integer 0 and port is present as an integer
ExplicitPort(a) ==
  /\ "implied_port" \in DOMAIN a /\ a["implied_port"] = VInt(0)
  /\ "port" \in DOMAIN a /\ a["port"][1] = "i"

\* C9: the peer port of every stored announcement is the explicit port
\* argument when implied_port is present with value 0 and port is present as
\* an integer, and the UDP source port otherwise; the peer IP is the source
\* IP.
C9_PeerPort ==
  \A i \in DOMAIN announcements.el \ {Root} :
    LET ac == announcements.el[i].value[1]
        a  == Val(ac.raw, "a")
    IN  /\ ac.peer.ip = ac.from.ip
        /\ ExplicitPort(a) => ac.peer.port = a["port"][2]
        /\ ~ExplicitPort(a) => ac.peer.port = ac.from.port

\* C9, its case: one announcement stored with its explicit port, which is
\* not the source port.
C9_Witness ==
  \E i \in DOMAIN announcements.el \ {Root} :
    LET ac == announcements.el[i].value[1] IN
    /\ announcements.el[i].list
    /\ ExplicitPort(Val(ac.raw, "a"))
    /\ ac.peer.port # ac.from.port


\* a reply or error whose r holds a string of whole compact node records
WellFormedReply(dg) ==
  /\ dg.data[1] = "d"
  /\ LET d == dg.data[2] IN
       /\ IsString(d, "y") /\ Val(d, "y") \in {S_r, S_e}
       /\ IsDict(d, "r")
       /\ IsString(Val(d, "r"), "nodes")
       /\ Len(Val(Val(d, "r"), "nodes")) % 26 = 0

NodesOf(dg) == Val(Val(dg.data[2], "r"), "nodes")

DecodeInputs(n) == {[j \in 1..n |-> (m * j + 3) % 256] : m \in {37, 101}}

InitDecode ==
  /\ scenario = "decode"
  /\ budget = 0
  /\ newDHT(1, CHOOSE id \in LocalIDs : TRUE, CHOOSE sec \in Secrets : TRUE)
  /\ fin \in {Some(s) : s \in UNION {DecodeInputs(n) : n \in 0..MaxDecodeLen}}
  /\ fout = None

Decode ==
  /\ scenario = "decode"
  /\ fout = None
  /\ fout' = Some(decodeNodes(fin[1]))
  /\ UNCHANGED <<scenario, budget, maxFriendsPerSec, localID, secret,
                 maxAnnouncements, announcements, announcementNotifier,
                 friendsLimiter, die, errDie, sent, replied, listen, join,
                 makefriends, consumer, drained, hist, crashed, fin>>

SpecDecode == InitDecode /\ [][Decode]_vars

\* C10: decodeNodes returns an empty result for every input whose length is
\* not a multiple of 26, and for every input whose length is a multiple of 26
\* exactly len/26 nodes in input order, node i having id = bytes
\* [26i, 26i+20), as address the IPv4 address of bytes [26i+20, 26i+24) and
\* as port the big-endian value of bytes [26i+24, 26i+26).
C10_DecodeNodes ==
  fout # None =>
    LET s == fin[1]
        nodes == fout[1]
    IN  /\ Len(s) % 26 # 0 => nodes = <<>>
        /\ Len(s) % 26 = 0 =>
             /\ Len(nodes) = Len(s) \div 26
             /\ \A i \in 0..(Len(nodes) - 1) :
                  /\ nodes[i + 1].id = SubSeq(s, 26 * i + 1, 26 * i + 20)
                  /\ ResolveUDPAddr(nodes[i + 1].addr) =
                       {Some([ip   |-> SubSeq(s, 26 * i + 21, 26 * i + 24),
                              port |-> s[26 * i + 25] * 256 + s[26 * i + 26]])}

\* C10, its case: an input of two records was decoded into two nodes.
C10_Witness ==
  /\ fout # None
  /\ Len(fin[1]) = 52
  /\ Len(fout[1]) = 2


(***************************************************************************)
(* The read task under every variation of every message, with read errors. *)
(***************************************************************************)
NextRead == NextHandler \/ ListenError \/ ListenClose

SpecRead == InitHandler /\ [][NextRead]_vars

\* the read task reads no more: it left its loop, or it panicked
ReadTaskStopped == crashed \/ listen.pc \in {"closing", "stopped"}

\* C11: a socket read failure is the only event that stops the read task:
\* whenever the read task has stopped, a read error is recorded; the done
\* signal is raised by the read task's last step, so at most once, and
\* whenever it is raised the error is already set.
C11_OnlyReadFailureStops ==
  /\ ReadTaskStopped => errDie # Nil
  /\ die => (errDie # Nil /\ listen.pc = "stopped")


(***************************************************************************)
(* neighborID, as the read task and the discovery consumer apply it to     *)
(* requesters and discovered nodes of every id, under every local id.      *)
(***************************************************************************)
InitNeighbor ==
  /\ scenario = "neighbor"
  /\ budget = MaxHandled
  /\ \E id \in NeighborIDs, sec \in Secrets : newDHT(1, id, sec)
  /\ fin = None
  /\ fout = None

NextNeighbor == ListenRecv \/ ReplyAllow \/ HandoffListen \/ FindNode

SpecNeighbor == InitNeighbor /\ [][NextNeighbor]_vars

\* id has 20 bytes, the first 15 those of target, the last 5 those of local
IsNeighborOf(id, target, local) ==
  /\ Len(id) = 20
  /\ \A i \in 1..15 : id[i] = target[i]
  /\ \A i \in 16..20 : id[i] = local[i]

\* C12: for 20-byte target and local, neighborID(target, local) has 20
\* bytes, the first 15 those of target and the last 5 those of local; it is
\* the id of the reply to a get_peers query (target: the requester's id) and
\* the id of the find_node query sent to a discovered node (target: the
\* node's id).
C12_NeighborID ==
  [][/\ (JustRead /\ WellFormedGetPeers(listen'.dg[1])
           /\ Len(Val(Args(listen'.dg[1]), "id")) = 20)
        => /\ ~crashed'
           /\ Len(sent') = 1
           /\ IsNeighborOf(Val(Val(sent'[1].data, "r"), "id"),
                           Val(Args(listen'.dg[1]), "id"), localID)
     /\ (makefriends.pc = "findNode" /\ makefriends'.pc = "recv")
        => /\ Len(sent') = 1
           /\ Val(sent'[1].data, "q") = S_find_node
           /\ IsNeighborOf(Val(Val(sent'[1].data, "a"), "id"),
                           makefriends.node[1].id, localID)
    ]_vars

\* C12, its case: a get_peers query was answered and then a find_node query
\* was sent to a discovered node
C12_Witness ==
  /\ replied # {}
  /\ Len(sent) = 1
  /\ "q" \in DOMAIN sent[1].data
  /\ Val(sent[1].data, "q") = S_find_node
  /\ localID[16] # Val(Val(sent[1].data, "a"), "id")[1]


(***************************************************************************)
(* The engine under the scheduling Go gives its tasks: a goroutine that    *)
(* can take a step eventually takes it.  Datagrams, read errors and the    *)
(* passing of time are the environment's and come when they come.          *)
(***************************************************************************)
InitLive ==
  /\ scenario = "live"
  /\ budget = MaxLive
  /\ \E n \in 1..MaxFriends, id \in LocalIDs, sec \in Secrets : newDHT(n, id, sec)
  /\ fin = None
  /\ fout = None

NextLive ==
  \/ ListenRecv \/ ListenError \/ ListenClose
  \/ ReplyAllow \/ HandoffListen \/ Tick
  \/ HandoffJoin \/ FindNode

Fairness ==
  /\ WF_vars(ListenClose)
  /\ WF_vars(ReplyAllow)
  /\ WF_vars(HandoffListen)
  /\ WF_vars(HandoffJoin)
  /\ WF_vars(FindNode)

SpecLive == InitLive /\ [][NextLive]_vars /\ Fairness

\* makefriends has left its loop
MakefriendsTerminated == makefriends.pc \notin {"recv", "findNode"}

\* C13: after a fatal transport error the bootstrap task and the discovery
\* consumer eventually terminate, and no task stays parked for ever on a
\* send to or a receive from the discovery channel.
C13_CancelledOnError ==
  /\ die ~> (join.pc = "done")
  /\ die ~> MakefriendsTerminated
  /\ ~<>[](die /\ (makefriends.pc = "recv" \/ join.pc = "send" \/ listen.pc = "chNode"))


\* a datagram written to the network is a find_node query
IsFindNode(w) == "q" \in DOMAIN w.data /\ Val(w.data, "q") = S_find_node

\* C14: find_node queries come from makefriends alone, one at a time: a node
\* is handed over only when makefriends waits with no node in hand, by one
\* producer; the node in hand is given up by one call of findNode, which
\* writes one find_node query to an address the node's address resolves to,
\* or nothing when the resolution fails; and every step that writes a
\* find_node query is that call, after which makefriends holds the node no
\* more.
C14_FindNodeSerialized ==
  [][/\ (makefriends' # makefriends) =>
          \/ /\ makefriends = [pc |-> "recv", node |-> None]
             /\ makefriends'.pc = "findNode"
             /\ makefriends'.node # None
             /\ sent' = sent
             /\ \/ join'.n = join.n + 1 /\ listen' = listen
                \/ join' = join /\ listen.pc = "chNode"
                     /\ makefriends'.node[1] = listen.nodes[listen.i]
          \/ /\ makefriends.pc = "findNode"
             /\ makefriends' = [pc |-> "recv", node |-> None]
             /\ join' = join /\ listen' = listen
             /\ \/ sent' = sent /\ None \in Resolved[makefriends.node[1].addr]
                \/ /\ Len(sent') = 1
                   /\ IsFindNode(sent'[1])
                   /\ Some(sent'[1].to) \in Resolved[makefriends.node[1].addr]
     /\ (sent' # sent /\ sent' # <<>> /\ IsFindNode(sent'[1])) =>
          /\ makefriends.pc = "findNode"
          /\ makefriends' = [pc |-> "recv", node |-> None]
    ]_vars

\* C14, its case: both producers have handed nodes over, and the find_node
\* query for the last of them is written
C14_Witness ==
  /\ join.n >= 1
  /\ Len(hist.enq) >= 1
  /\ makefriends = [pc |-> "recv", node |-> None]
  /\ Len(sent) = 1
  /\ IsFindNode(sent[1])


\* C15: the discovery channel is unbuffered.  While the read task is blocked
\* handing a node to makefriends it reads no datagram, answers no get_peers
\* and stores no announcement, and it moves on only in the step in which
\* makefriends, waiting, receives that node; under fair scheduling the
\* hand-over completes, the read task is not blocked on the channel for ever.
C15_UnbufferedHandoff ==
  /\ [][(listen.pc = "chNode") =>
          /\ budget' = budget
          /\ replied' = replied
          /\ announcements' = announcements
          /\ (listen' # listen) =>
               /\ makefriends.pc = "recv"
               /\ makefriends' = [pc |-> "findNode",
                                  node |-> Some(listen.nodes[listen.i])]
       ]_vars
  /\ (listen.pc = "chNode") ~> (listen.pc # "chNode")

\* C15, its case: the read task is blocked on the channel, makefriends is
\* busy with an earlier node, and datagrams wait to be read
C15_Witness ==
  /\ listen.pc = "chNode"
  /\ makefriends.pc = "findNode"
  /\ budget > 0


\* C16: join hands over 3 * |seed| nodes and returns: each hand-over is one
\* more, of the bootstrap address next in the round, with an id of 20 random
\* bytes, taken by makefriends while it waits, the limiter left alone; join
\* has returned exactly when it has handed over all of them, and under fair
\* scheduling it returns, whatever the read task hands over in between.
C16_JoinPushes ==
  /\ [][(join' # join) =>
          /\ join.pc = "send"
          /\ join'.n = join.n + 1
          /\ makefriends = [pc |-> "recv", node |-> None]
          /\ makefriends'.pc = "findNode"
          /\ makefriends'.node[1].addr = seed[(join.n % 3) + 1]
          /\ makefriends'.node[1].id \in RandBytes(20)
          /\ friendsLimiter' = friendsLimiter
       ]_vars
  /\ [](join.n <= 3 * Len(seed) /\ (join.pc = "done" <=> join.n = 3 * Len(seed)))
  /\ <>(join.pc = "done")

\* C16, its case: join has returned after its nine hand-overs, the read task
\* having handed over nodes of its own
C16_Witness ==
  /\ join.pc = "done"
  /\ join.n = 9
  /\ Len(hist.enq) >= 1


\* the elements PushBack has made, in the order of the pushes
Pushed == [k \in 1..(Cardinality(DOMAIN announcements.el) - 1) |-> k]

\* the read task has nothing left to read, the consumer waits, and no
\* notification is pending
Quiet ==
  /\ budget = 0
  /\ listen.pc = "read"
  /\ consumer.pc = "wait"
  /\ announcementNotifier = 0

\* C17: the store is safe under concurrent use.  However the pushes of the
\* read task interleave with the drains of the consumer, neither task
\* fails, the consumer takes no announcement twice, it takes them in the
\* order they were pushed, and once both tasks have come to rest every
\* announcement pushed has been taken.
C17_StoreSafe ==
  /\ ~crashed
  /\ \A j, k \in 1..Len(drained) : j < k => drained[j] < drained[k]
  /\ Quiet => drained = Pushed


\* a datagram the engine is to ignore: it does not decode, its y is absent
\* or none of q, r, e, it is a query without a string t or a string q or
\* with a name other than get_peers and announce_peer, or it is a reply or
\* an error without a dictionary r that holds a string nodes
Ignorable(dg) ==
  IF dg.data[1] # "d" THEN TRUE
  ELSE LET d == dg.data[2] IN
    IF ~IsString(d, "y") THEN TRUE
    ELSE IF Val(d, "y") = S_q
      THEN IF ~IsString(d, "t") \/ ~IsString(d, "q") THEN TRUE
           ELSE Val(d, "q") \notin {S_get_peers, S_announce_peer}
    ELSE IF Val(d, "y") \in {S_r, S_e}
      THEN IF ~IsDict(d, "r") THEN TRUE
           ELSE ~IsString(Val(d, "r"), "nodes")
    ELSE TRUE

\* C18: such a message is ignored: the step that reads it writes no
\* datagram and leaves the store, the wake-up signal, the limiter and the
\* discovery channel as they are, and the read task is back at its read.
C18_IgnoredMessages ==
  [][(JustRead /\ Ignorable(listen'.dg[1])) =>
       /\ sent' = sent
       /\ replied' = replied
       /\ announcements' = announcements
       /\ announcementNotifier' = announcementNotifier
       /\ friendsLimiter' = friendsLimiter
       /\ makefriends' = makefriends
       /\ listen'.pc = "read"
       /\ ~crashed']_vars

\* C18, its case: a find_node query was read and ignored after a get_peers
\* query had been answered
C18_Witness ==
  /\ listen.dg # None
  /\ IsQueryNamed(listen.dg[1], S_find_node)
  /\ Ignorable(listen.dg[1])
  /\ listen.pc = "read"
  /\ replied # {}
  /\ sent # <<>>


\* the read task is storing an announcement: in PushBack or at the
\* notification
Storing == listen.pc \notin {"read", "range", "chNode", "closing", "stopped"}

\* C19: handling an announce_peer query never writes a datagram, whatever
\* its token and its arguments: neither the step that reads it nor the steps
\* of the read task that store its announcement write anything, so that
\* what the engine sends is the same for a valid token, an invalid token and
\* malformed arguments.
C19_AnnounceSendsNothing ==
  [][/\ (JustRead /\ IsQueryNamed(listen'.dg[1], S_announce_peer)) =>
          /\ sent' = sent
          /\ replied' = replied
          /\ ~crashed'
     /\ (Storing /\ listen' # listen) =>
          /\ sent' = sent
          /\ replied' = replied
    ]_vars

\* C19, its case: an announce_peer query with a refused token was handled
\* after one with a valid token was stored, and nothing was ever written
C19_Witness ==
  /\ listen.dg # None
  /\ BadTokenAnnounce(listen.dg[1])
  /\ listen.pc = "read"
  /\ Len(Chain(announcements)) = 1
  /\ sent = <<>>


\* the characters of lowercase hexadecimal: 0-9, a-f
IsLowerHex(c) == c \in 48..57 \/ c \in 97..102

\* C20: every announcement in the store has an infohash of exactly 20 bytes
\* and as infohashHex its 40 characters of lowercase hexadecimal, whatever
\* info_hash the accepted announce_peer query carried.
C20_InfohashLength ==
  \A i \in DOMAIN announcements.el \ {Root} :
    LET ac == announcements.el[i].value[1] IN
      /\ Len(ac.infohash) = 20
      /\ Len(ac.infohashHex) = 40
      /\ \A k \in 1..Len(ac.infohashHex) : IsLowerHex(ac.infohashHex[k])
      /\ \A k \in 1..Len(ac.infohash) :
           /\ ac.infohashHex[2 * k - 1] = HexDigit(ac.infohash[k] \div 16)
           /\ ac.infohashHex[2 * k] = HexDigit(ac.infohash[k] % 16)

=============================================================================
